---- MODULE Spec2Model ----
(***************************************************************************)
(* Model of the live tailing + sliding-window aggregation engine of        *)
(* Jinteia-Loot-Analyzer-FREE.py: parse_log_line, LiveMonitorWorker        *)
(* (add_event, compute_stats_from_window, run) and the environment the     *)
(* worker runs in (the growing log file, the wall clock, the stop event).  *)
(*                                                                         *)
(* Time stamps of events are seconds since 2025-01-01 00:00:00.            *)
(* The wall clock is counted in units of 200 ms (the backoff delay).       *)
(***************************************************************************)
EXTENDS Integers, Sequences, FiniteSets, TLC

\* ------------------------------------------------------------------------
\* Bounds of the model
\* ------------------------------------------------------------------------
MaxFile == 3        \* most lines the log file ever holds
MaxTime == 10       \* last wall-clock instant, in units of 200 ms
MaxLoad == 3        \* most lines of a history the aggregator is examined on
MaxText == 3        \* most characters after "You receive <qty> " in a line
MaxPush == 3        \* most lines of a run whose pushes are examined

\* ------------------------------------------------------------------------
\* Program constants
\* ------------------------------------------------------------------------
SleepUnits == 1     \* time.sleep(0.2): one unit of 200 ms
UnitsPerSecond == 5 \* 1 s = 5 units of 200 ms
FloorSeconds_Minute == 1 * 60
FloorSeconds == 1   \* max(elapsed, 1)

\* Configuration values the runs are started with (Spinbox 1..600 / 1..60).
WindowMinutesChoices == {60}
RefreshSecsChoices == {1}

\* ------------------------------------------------------------------------
\* Log lines.  A line either has the shape of LOG_LINE_RE
\*   [DD/MM/YY] [HH:MM:SS]: You receive <qty> <item>.
\* (shape = TRUE, with the captured groups as fields) or it does not.
\* ------------------------------------------------------------------------
Loot(dd, mo, yy, hh, mi, ss, q, it) ==
    [shape |-> TRUE, dd |-> dd, mo |-> mo, yy |-> yy,
     hh |-> hh, mi |-> mi, ss |-> ss, qty |-> q, item |-> it]

Noise == [shape |-> FALSE, dd |-> 0, mo |-> 0, yy |-> 0,
          hh |-> 0, mi |-> 0, ss |-> 0, qty |-> 0, item |-> ""]

LineYang     == Loot(1, 1, 25, 0, 0, 0, 100, "Yang")
LineShard    == Loot(1, 1, 25, 1, 0, 1, 50, "Shard")
LineBadDate  == Loot(99, 1, 25, 0, 0, 0, 1, "Yang")

Lines == {LineYang, LineShard, LineBadDate, Noise}

\* Lines of the histories the aggregator is examined on
LineShardHour == Loot(1, 1, 25, 1, 0, 0, 50, "Shard")
LineYang900   == Loot(1, 1, 25, 2, 0, 0, 900, "Yang")
LineChest2    == Loot(1, 1, 25, 0, 10, 0, 2, "Truhe des Razador")
LineChest5    == Loot(1, 1, 25, 0, 30, 0, 5, "Truhe des Razador")
LineSoulStone == Loot(1, 1, 25, 0, 30, 0, 50, "Soul Stone")

LoadLines == {LineYang, LineShard, LineShardHour, LineYang900, LineChest2,
              LineChest5, LineSoulStone}

\* Lines of the runs whose pushes are examined: timestamps 0, 3600 (twice,
\* once with quantity 0), 3601 and 7200 s around a window of 60 minutes
LineZero == Loot(1, 1, 25, 1, 0, 0, 0, "Shard")

PushLines == {LineYang, LineShardHour, LineZero, LineShard, LineYang900}

\* ------------------------------------------------------------------------
\* LOG_LINE_RE.search on the characters of a line.  lead is what the line
\* holds before "[DD/MM/YY]", text what follows "You receive <qty> " up to
\* the end of the line; the markers, date, time and quantity are in place.
\* ------------------------------------------------------------------------
TextChars == {"a", " ", "'", "."}

Texts == UNION {[1..n -> TextChars] : n \in 1..MaxText}

Leads == {<<>>, <<"a">>}

\* (.+?)\. : the shortest run of at least one character (a period too) that
\* a period follows; 0 when there is none
ItemEnd(text) ==
    IF \E k \in 2..Len(text) : text[k] = "."
    THEN CHOOSE k \in 2..Len(text) :
            /\ text[k] = "."
            /\ \A j \in 2..(k - 1) : text[j] # "."
    ELSE 0

\* search, not fullmatch: what precedes the match (lead) and what follows the
\* matched period is skipped
TextLine(lead, text) ==
    [shape |-> ItemEnd(text) # 0, dd |-> 1, mo |-> 1, yy |-> 25,
     hh |-> 0, mi |-> 0, ss |-> 0, qty |-> 1,
     item |-> IF ItemEnd(text) # 0 THEN SubSeq(text, 1, ItemEnd(text) - 1)
              ELSE <<>>,
     lead |-> lead, text |-> text]

TextLines == {TextLine(lead, text) : lead \in Leads, text \in Texts}

\* ------------------------------------------------------------------------
\* parse_datetime_from_log: datetime.strptime(..., "%d/%m/%y %H:%M:%S")
\* ------------------------------------------------------------------------
FullYear(yy) == IF yy <= 68 THEN 2000 + yy ELSE 1900 + yy

IsLeap(y) == (y % 4 = 0) /\ ((y % 100 # 0) \/ (y % 400 = 0))

DaysInMonth(y, m) ==
    IF m = 2 THEN (IF IsLeap(y) THEN 29 ELSE 28)
    ELSE IF m \in {4, 6, 9, 11} THEN 30 ELSE 31

DaysBeforeMonth(y, m) ==
    LET cum == <<0, 31, 59, 90, 120, 151, 181, 212, 243, 273, 304, 334>>
    IN cum[m] + (IF m > 2 /\ IsLeap(y) THEN 1 ELSE 0)

DaysBeforeYear(y) ==
    365 * (y - 1) + ((y - 1) \div 4) - ((y - 1) \div 100) + ((y - 1) \div 400)

\* strptime raises ValueError unless the fields name a real date and time.
DateTimeValid(l) ==
    /\ l.mo \in 1..12
    /\ l.dd >= 1
    /\ l.dd <= DaysInMonth(FullYear(l.yy), l.mo)
    /\ l.hh \in 0..23
    /\ l.mi \in 0..59
    /\ l.ss \in 0..59

parse_datetime_from_log(l) ==
    LET y == FullYear(l.yy)
        days == DaysBeforeYear(y) + DaysBeforeMonth(y, l.mo) + (l.dd - 1)
                  - DaysBeforeYear(2025)
    IN ((days * 24 + l.hh) * 60 + l.mi) * 60 + l.ss

\* ------------------------------------------------------------------------
\* parse_log_line: "none" (no match), "raise" (ValueError out of strptime),
\* or "event" with the LootEvent.
\* ------------------------------------------------------------------------
NoEvent == [ts |-> 0, quantity |-> 0, item |-> ""]

ParseRaises(l) == l.shape /\ ~DateTimeValid(l)

parse_log_line(l) ==
    IF ~l.shape THEN [res |-> "none", ev |-> NoEvent]
    ELSE IF ParseRaises(l) THEN [res |-> "raise", ev |-> NoEvent]
    ELSE [res |-> "event",
          ev |-> [ts |-> parse_datetime_from_log(l),
                  quantity |-> l.qty, item |-> l.item]]

is_yang_Lowercase(ev) == ev.item = "yang"

is_yang(ev) == ev.item = "Yang"

\* ------------------------------------------------------------------------
\* DUNGEONS: dungeon name -> the chest item names of that dungeon
\* (umlauts written as ASCII digraphs)
\* ------------------------------------------------------------------------
DungeonNames == {"Razador", "Nemere", "Jotun", "Blue Death", "Natuhu",
                 "Taliko", "Affengott", "Nalantir", "Nozdormu"}

DUNGEONS ==
    [d \in DungeonNames |->
       CASE d = "Razador"    -> {"Truhe des Razador", "Razador's Chest"}
         [] d = "Nemere"     -> {"Truhe des Nemere", "Nemere's Chest"}
         [] d = "Jotun"      -> {"Truhe des Jotun Thrym", "Jotun Thrym's Chest"}
         [] d = "Blue Death" -> {"Truhe der Hoellfenpforte",
                                 "Truhe der Hoellenpforte", "Hellgates Chest"}
         [] d = "Natuhu"     -> {"Truhe des Eulen-Koenig", "Chest of the Owl King"}
         [] d = "Taliko"     -> {"Talikos Reichtum", "Taliko's Riches"}
         [] d = "Affengott"  -> {"Affengottes Schatz", "Monkey God's Treasure"}
         [] d = "Nalantir"   -> {"Nalantirs Vermaechtnis", "Nalantir's Legacy"}
         [] d = "Nozdormu"   -> {"Schatz der Dornen", "Treasure of Thorns"}]

\* The price table the application starts with (self.price_db).
DefaultPrices == [n \in {"Shard"} |-> 1000]

\* Price tables load_prices can find in prices.json
EditedPrices ==
    [n \in {"Shard", "Soul Stone"} |-> IF n = "Shard" THEN 2000 ELSE 3]

PriceTables == {DefaultPrices, EditedPrices}

\* ------------------------------------------------------------------------
\* LiveMonitorWorker.add_event
\* ------------------------------------------------------------------------
\* variant: the window duration taken as hours
Cutoff_Hours(ev, wm) == ev.ts - wm * 3600

Cutoff(ev, wm) == ev.ts - wm * 60

RECURSIVE EvictHead_Inclusive(_, _)
EvictHead_Inclusive(w, cutoff) ==
    IF w # <<>> /\ Head(w).ts <= cutoff
    THEN EvictHead_Inclusive(Tail(w), cutoff)
    ELSE w

RECURSIVE EvictHead(_, _)
EvictHead(w, cutoff) ==
    IF w # <<>> /\ Head(w).ts < cutoff
    THEN EvictHead(Tail(w), cutoff)
    ELSE w

\* variant: ignore_cutoff is not honoured
add_event_AlwaysEvicts(w, ev, ignore_cutoff, wm) ==
    EvictHead(Append(w, ev), Cutoff(ev, wm))

add_event(w, ev, ignore_cutoff, wm) ==
    LET a == Append(w, ev)
    IN IF ignore_cutoff THEN a ELSE EvictHead(a, Cutoff(ev, wm))

\* ------------------------------------------------------------------------
\* LiveMonitorWorker.compute_stats_from_window
\* ------------------------------------------------------------------------
Max(a, b) == IF a >= b THEN a ELSE b

\* int(round(n / d)) for n >= 0, d > 0.  The code divides doubles
\* (qty / (elapsed / 3600.0)); round() takes the double quotient to the
\* nearest integer and a double that is exactly k + 1/2 to the even
\* neighbour.  Where the exact quotient is a tie but elapsed / 3600.0 is not
\* exact, the double quotient lies just beside the tie and either neighbour
\* can come out (50 over 192 s gives 937); with the timestamps of the
\* lines above every tie is computed exactly (elapsed 7200 s), and below
\* 2^51 no other quotient is misrounded.
RoundDiv_Floor(n, d) == n \div d

RoundDiv(n, d) ==
    LET q == n \div d
        r == n % d
    IN IF 2 * r < d THEN q
       ELSE IF 2 * r > d THEN q + 1
       ELSE q + (q % 2)

RECURSIVE SumSeq(_)
SumSeq(s) == IF s = <<>> THEN 0 ELSE Head(s) + SumSeq(Tail(s))

InSeq(x, s) == \E i \in 1..Len(s) : s[i] = x

RECURSIVE ItemNames(_, _)
\* keys of items_qty in insertion order: first occurrence of each item name
ItemNames(w, acc) ==
    IF w = <<>> THEN acc
    ELSE LET ev == Head(w)
         IN ItemNames(Tail(w),
                      IF is_yang(ev) \/ InSeq(ev.item, acc)
                      THEN acc ELSE Append(acc, ev.item))

\* items_qty[name]: summed quantity of the events of that item
ItemQty(w, name) ==
    SumSeq([i \in 1..Len(w) |-> IF w[i].item = name THEN w[i].quantity ELSE 0])

\* variant: the Yang events are counted, not their quantities
YangQty_Events(w) ==
    SumSeq([i \in 1..Len(w) |-> IF is_yang(w[i]) THEN 1 ELSE 0])

\* sum(ev.quantity for ev in events_list if ev.is_yang)
YangQty(w) ==
    SumSeq([i \in 1..Len(w) |-> IF is_yang(w[i]) THEN w[i].quantity ELSE 0])

DungeonQty_Events(w, d) ==
    SumSeq([i \in 1..Len(w) |->
              IF ~is_yang(w[i]) /\ w[i].item \in DUNGEONS[d] THEN 1 ELSE 0])

DungeonQty(w, d) ==
    SumSeq([i \in 1..Len(w) |->
              IF ~is_yang(w[i]) /\ w[i].item \in DUNGEONS[d]
              THEN w[i].quantity ELSE 0])

\* total_runs: each event's quantity once per dungeon that lists its item
TotalRuns(w) ==
    SumSeq([i \in 1..Len(w) |->
              IF is_yang(w[i]) THEN 0
              ELSE w[i].quantity
                     * Cardinality({d \in DungeonNames : w[i].item \in DUNGEONS[d]})])

\* start = events_list[0].ts, end = events_list[-1].ts
WindowStart(w) == w[1].ts

WindowEnd_Newest(w) ==
    CHOOSE t \in {w[i].ts : i \in 1..Len(w)} :
        \A i \in 1..Len(w) : w[i].ts <= t

WindowEnd(w) == w[Len(w)].ts

Elapsed(w) == Max(WindowEnd(w) - WindowStart(w), FloorSeconds)

PriceOf_DefaultOne(prices, name) ==
    IF name \in DOMAIN prices THEN prices[name] ELSE 1

PriceOf(prices, name) == IF name \in DOMAIN prices THEN prices[name] ELSE 0

ItemRow(w, prices, name) ==
    LET qty == ItemQty(w, name)
    IN <<name, qty, RoundDiv(qty * 3600, Elapsed(w)), qty * PriceOf(prices, name)>>

InsertRow_Unstable(row, sorted) ==
    LET k == Cardinality({i \in 1..Len(sorted) : sorted[i][2] > row[2]})
    IN SubSeq(sorted, 1, k) \o <<row>> \o SubSeq(sorted, k + 1, Len(sorted))

\* list.sort(key=qty, reverse=True): stable, descending by quantity
InsertRow(row, sorted) ==
    LET k == Cardinality({i \in 1..Len(sorted) : sorted[i][2] >= row[2]})
    IN SubSeq(sorted, 1, k) \o <<row>> \o SubSeq(sorted, k + 1, Len(sorted))

RECURSIVE SortRows(_, _)
SortRows(rows, sorted) ==
    IF rows = <<>> THEN sorted
    ELSE SortRows(Tail(rows), InsertRow(Head(rows), sorted))

NoStats == <<>>

\* variant: a window of one event gives no snapshot
compute_stats_from_window_NeedsTwo(w, prices) ==
    IF Len(w) < 2 THEN NoStats
    ELSE
      LET names == ItemNames(w, <<>>)
          dropped_yang == YangQty(w)
          touched == {d \in DungeonNames :
                        \E i \in 1..Len(w) :
                           ~is_yang(w[i]) /\ w[i].item \in DUNGEONS[d]}
          runs == [d \in touched |-> DungeonQty(w, d)]
          rows == [i \in 1..Len(names) |-> ItemRow(w, prices, names[i])]
      IN << [start |-> WindowStart(w),
             end |-> WindowEnd(w),
             elapsed |-> Elapsed(w),
             dropped_yang |-> dropped_yang,
             yang_per_hour |-> RoundDiv(dropped_yang * 3600, Elapsed(w)),
             yang_per_minute |-> RoundDiv(dropped_yang * 60, Elapsed(w)),
             items |-> SortRows(rows, <<>>),
             dungeon_runs |-> runs,
             total_dungeon_runs |-> TotalRuns(w)] >>

compute_stats_from_window(w, prices) ==
    IF w = <<>> THEN NoStats
    ELSE
      LET names == ItemNames(w, <<>>)
          dropped_yang == YangQty(w)
          touched == {d \in DungeonNames :
                        \E i \in 1..Len(w) :
                           ~is_yang(w[i]) /\ w[i].item \in DUNGEONS[d]}
          runs == [d \in touched |-> DungeonQty(w, d)]
          rows == [i \in 1..Len(names) |-> ItemRow(w, prices, names[i])]
      IN << [start |-> WindowStart(w),
             end |-> WindowEnd(w),
             elapsed |-> Elapsed(w),
             dropped_yang |-> dropped_yang,
             yang_per_hour |-> RoundDiv(dropped_yang * 3600, Elapsed(w)),
             yang_per_minute |-> RoundDiv(dropped_yang * 60, Elapsed(w)),
             items |-> SortRows(rows, <<>>),
             dungeon_runs |-> runs,
             total_dungeon_runs |-> TotalRuns(w)] >>

\* ------------------------------------------------------------------------
\* State
\* ------------------------------------------------------------------------
VARIABLES
    file,            \* the log file: the sequence of its lines
    preLen,          \* number of lines the file held when the run started
    handle,          \* the worker's file handle: "none", "open", "closed"
    cursor,          \* number of lines of the file behind the read cursor
    window,          \* self.window
    from_start,      \* self.from_start
    window_minutes,  \* self.window_minutes
    refresh_secs,    \* self.refresh_secs
    stop_event,      \* self.stop_event.is_set()
    now,             \* time.time(), in units of 200 ms
    last_print,      \* local last_print of run(), same units
    pc,              \* position of the worker inside run()
    notifications,   \* the dicts passed to update_callback, in order
    parsed,          \* indices of the file lines given to parse_log_line
    pushes,          \* number of add_event calls so far
    snapMeta,        \* per emitted snapshot: pushes so far, cadence time
    price_db,        \* the dict shared by the app and the worker (line 876)
    uiQueue,         \* callbacks scheduled with after(0, update_stats, ...)
    last_received_stats, \* LootMonitorApp.last_received_stats
    handled,         \* the dicts update_stats was called with, in order
    worker,          \* LootMonitorApp.worker: 0 for None, else the n-th worker
    joinAt           \* instant stop_monitor began worker.join, -1 outside it

vars == <<file, preLen, handle, cursor, window, from_start, window_minutes,
          refresh_secs, stop_event, now, last_print, pc, notifications,
          parsed, pushes, snapMeta, price_db, uiQueue, last_received_stats,
          handled, worker, joinAt>>

Status(m) == [type |-> "status", msg |-> m, stats |-> NoStats]
ErrorNote == [type |-> "error", msg |-> "Cannot open log file", stats |-> NoStats]
Snapshot(st) == [type |-> "stats", msg |-> "", stats |-> st]

MsgOpening == "Opening log file..."
MsgReading == "Reading historical data (this may take a moment)..."
MsgLoaded  == "Historical data loaded. Starting live monitor."
MsgLive    == "Monitoring live logs..."
MsgStopped == "Monitoring stopped."

\* variant: the callback is called without the None guard
EmitStats_Always(notes, st) == Append(notes, Snapshot(st))

\* update_callback(stats) guarded by "if stats": nothing for an empty window
EmitStats(notes, st) == IF st = NoStats THEN notes ELSE Append(notes, Snapshot(st))

\* "error" in stats / a dict with the snapshot's keys (update_stats)
IsErrorNote(n) == n.type = "error"
IsStatsNote(n) == n.type = "stats"

\* prices = getattr(self, 'price_db', {}): the worker's price_db is the very
\* dict of the application (self.worker.price_db = self.price_db), read anew
\* at every aggregation.  The aggregation is taken as one step: it reads the
\* dict once per item (prices.get) and never iterates over it.
WorkerPriceDb_CopyAtStart(db) == DefaultPrices

WorkerPriceDb(db) == db

schedule_update_stats_Front(q, stats) == <<stats>> \o q

\* LootMonitorApp.schedule_update_stats: self.after(0, self.update_stats,
\* stats) puts the call behind the calls scheduled before it
schedule_update_stats(q, stats) == Append(q, stats)

RECURSIVE ScheduleAll(_, _)
ScheduleAll(q, new) ==
    IF new = <<>> THEN q
    ELSE ScheduleAll(schedule_update_stats(q, Head(new)), Tail(new))

\* the dicts a step of the worker passes to update_callback
NewNotes == SubSeq(notifications', Len(notifications) + 1, Len(notifications'))

\* update_callback is schedule_update_stats (line 873): every dict the worker
\* emits is scheduled for the UI thread; the worker touches nothing else of
\* the application
Callbacks ==
    /\ uiQueue' = ScheduleAll(uiQueue, NewNotes)
    /\ UNCHANGED <<price_db, last_received_stats, handled, worker, joinAt>>

Files == UNION {[1..n -> Lines] : n \in 0..MaxFile}

Init ==
    /\ file \in Files
    /\ preLen = Len(file)
    /\ handle = "none"
    /\ cursor = 0
    /\ window = <<>>
    /\ from_start \in BOOLEAN
    /\ window_minutes \in WindowMinutesChoices
    /\ refresh_secs \in RefreshSecsChoices
    /\ stop_event = FALSE
    /\ now = 0
    /\ last_print = 0
    /\ pc = "start"
    /\ notifications = <<>>
    /\ parsed = {}
    /\ pushes = 0
    /\ snapMeta = <<>>
    /\ price_db = DefaultPrices
    /\ uiQueue = <<>>
    /\ last_received_stats = <<>>
    /\ handled = <<>>
    /\ worker = 1
    /\ joinAt = -1

\* ------------------------------------------------------------------------
\* Environment: the game client appends lines, time passes, the UI thread
\* sets the stop event (stop_monitor)
\* ------------------------------------------------------------------------
\* The game client appends a line.  The worker looks at the file at the seek
\* of line 246, in the historical pass (line 232, which runs to the end of
\* the file whenever that is reached) and at the reads of the live loop
\* (line 252).  A line appended before the seek or before the historical pass
\* ends is handled exactly as a line of the initial file, and a line appended
\* at any other moment as one appended right before the next live read.
AppendLine ==
    /\ pc = "read"
    /\ Len(file) < MaxFile
    /\ \E l \in Lines : file' = Append(file, l)
    /\ UNCHANGED <<preLen, handle, cursor, window, from_start, window_minutes,
                   refresh_secs, stop_event, now, last_print, pc,
                   notifications, parsed, pushes, snapMeta>>
    /\ UNCHANGED <<price_db, uiQueue, last_received_stats, handled, worker,
                   joinAt>>

\* The clock is read at lines 249 and 261 only; the time that passes during a
\* loop iteration is accounted for right before the read of line 261.
Tick ==
    /\ pc = "tick"
    /\ now < MaxTime
    /\ now' = now + 1
    /\ UNCHANGED <<file, preLen, handle, cursor, window, from_start,
                   window_minutes, refresh_secs, stop_event, last_print, pc,
                   notifications, parsed, pushes, snapMeta>>
    /\ UNCHANGED <<price_db, uiQueue, last_received_stats, handled, worker,
                   joinAt>>

SetStop ==
    /\ ~stop_event
    /\ stop_event' = TRUE
    /\ UNCHANGED <<file, preLen, handle, cursor, window, from_start,
                   window_minutes, refresh_secs, now, last_print, pc,
                   notifications, parsed, pushes, snapMeta>>
    /\ UNCHANGED <<price_db, uiQueue, last_received_stats, handled, worker,
                   joinAt>>

\* ------------------------------------------------------------------------
\* LiveMonitorWorker.run
\* ------------------------------------------------------------------------
\* lines 221-223: status, then open() succeeds
OpenOk ==
    /\ pc = "start"
    /\ notifications' = Append(notifications, Status(MsgOpening))
    /\ handle' = "open"
    /\ pc' = "opened"
    /\ UNCHANGED <<file, preLen, cursor, window, from_start, window_minutes,
                   refresh_secs, stop_event, now, last_print, parsed, pushes,
                   snapMeta>>
    /\ Callbacks

\* variant: the except branch does not return
OpenFail_FallsThrough ==
    /\ pc = "start"
    /\ notifications' = notifications \o <<Status(MsgOpening), ErrorNote>>
    /\ pc' = "opened"
    /\ UNCHANGED <<file, preLen, handle, cursor, window, from_start,
                   window_minutes, refresh_secs, stop_event, now, last_print,
                   parsed, pushes, snapMeta>>
    /\ Callbacks

\* lines 221-227: status, open() raises OSError, error callback, return
OpenFail ==
    /\ pc = "start"
    /\ notifications' = notifications \o <<Status(MsgOpening), ErrorNote>>
    /\ pc' = "failed"
    /\ UNCHANGED <<file, preLen, handle, cursor, window, from_start,
                   window_minutes, refresh_secs, stop_event, now, last_print,
                   parsed, pushes, snapMeta>>
    /\ Callbacks

\* lines 229-230
BeginHistorical ==
    /\ pc = "opened"
    /\ from_start
    /\ notifications' = Append(notifications, Status(MsgReading))
    /\ pc' = "hist"
    /\ UNCHANGED <<file, preLen, handle, cursor, window, from_start,
                   window_minutes, refresh_secs, stop_event, now, last_print,
                   parsed, pushes, snapMeta>>
    /\ Callbacks

\* One line read and handled; ignore_cutoff tells the historical pass from
\* the live loop.  An exception out of parse_log_line ends the thread.
ProcessLine_DropsZero(ignore_cutoff, nextpc) ==
    LET r == parse_log_line(file[cursor + 1])
    IN /\ cursor' = cursor + 1
       /\ parsed' = parsed \cup {cursor + 1}
       /\ pc' = nextpc
       /\ IF r.res = "event" /\ r.ev.quantity > 0
          THEN /\ window' = add_event(window, r.ev, ignore_cutoff,
                                      window_minutes)
               /\ pushes' = pushes + 1
          ELSE UNCHANGED <<window, pushes>>

ProcessLine(ignore_cutoff, nextpc) ==
    LET r == parse_log_line(file[cursor + 1])
    IN /\ cursor' = cursor + 1
       /\ parsed' = parsed \cup {cursor + 1}
       /\ IF r.res = "raise"
          THEN /\ pc' = "crashed"
               /\ UNCHANGED <<window, pushes>>
          ELSE /\ pc' = nextpc
               /\ IF r.res = "event"
                  THEN /\ window' = add_event(window, r.ev, ignore_cutoff,
                                              window_minutes)
                       /\ pushes' = pushes + 1
                  ELSE UNCHANGED <<window, pushes>>

HistRead_NoPush ==
    /\ pc = "hist"
    /\ cursor < Len(file)
    /\ cursor' = cursor + 1
    /\ parsed' = parsed \cup {cursor + 1}
    /\ UNCHANGED <<file, preLen, handle, from_start, window_minutes,
                   refresh_secs, stop_event, now, last_print, notifications,
                   snapMeta, window, pushes, pc>>
    /\ Callbacks

\* lines 232-236: one iteration of "for line in f"
HistRead ==
    /\ pc = "hist"
    /\ cursor < Len(file)
    /\ ProcessLine(TRUE, "hist")
    /\ UNCHANGED <<file, preLen, handle, from_start, window_minutes,
                   refresh_secs, stop_event, now, last_print, notifications,
                   snapMeta>>
    /\ Callbacks

\* variant: no snapshot at the end of the historical pass
HistEnd_NoSnapshot ==
    /\ pc = "hist"
    /\ cursor = Len(file)
    /\ notifications' = Append(notifications, Status(MsgLoaded))
    /\ last_print' = now
    /\ pc' = "loop"
    /\ UNCHANGED <<file, preLen, handle, cursor, window, from_start,
                   window_minutes, refresh_secs, stop_event, now, parsed,
                   pushes, snapMeta>>
    /\ Callbacks

\* lines 239-243 and 249: end of file reached by the historical pass
HistEnd ==
    /\ pc = "hist"
    /\ cursor = Len(file)
    /\ LET st == compute_stats_from_window(window, WorkerPriceDb(price_db))
       IN /\ notifications' =
               EmitStats(Append(notifications, Status(MsgLoaded)), st)
          /\ snapMeta' = IF st = NoStats THEN snapMeta
                         ELSE Append(snapMeta, [pushes |-> pushes,
                                                cadence |-> FALSE, at |-> 0])
    /\ last_print' = now
    /\ pc' = "loop"
    /\ UNCHANGED <<file, preLen, handle, cursor, window, from_start,
                   window_minutes, refresh_secs, stop_event, now, parsed,
                   pushes>>
    /\ Callbacks

\* variant: seek to the start of the file
SeekEnd_Start(f) == 0

\* where f.seek(0, os.SEEK_END) leaves the cursor
SeekEnd(f) == Len(f)

\* lines 244-249
SkipHistory ==
    /\ pc = "opened"
    /\ ~from_start
    /\ cursor' = SeekEnd(file)
    /\ notifications' = Append(notifications, Status(MsgLive))
    /\ last_print' = now
    /\ pc' = "loop"
    /\ UNCHANGED <<file, preLen, handle, window, from_start, window_minutes,
                   refresh_secs, stop_event, now, parsed, pushes, snapMeta>>
    /\ Callbacks

\* variant: the loop condition does not look at the stop event
LoopCheck_IgnoresStop ==
    /\ pc = "loop"
    /\ pc' = "read"
    /\ UNCHANGED <<file, preLen, handle, cursor, window, from_start,
                   window_minutes, refresh_secs, stop_event, now, last_print,
                   notifications, parsed, pushes, snapMeta>>
    /\ Callbacks

\* line 251: while not self.stop_event.is_set()
LoopCheck ==
    /\ pc = "loop"
    /\ pc' = IF stop_event THEN "close" ELSE "read"
    /\ UNCHANGED <<file, preLen, handle, cursor, window, from_start,
                   window_minutes, refresh_secs, stop_event, now, last_print,
                   notifications, parsed, pushes, snapMeta>>
    /\ Callbacks

ReadLine_DrainsLines ==
    /\ pc = "read"
    /\ cursor < Len(file)
    /\ ProcessLine(FALSE, "read")
    /\ UNCHANGED <<file, preLen, handle, from_start, window_minutes,
                   refresh_secs, stop_event, now, last_print, notifications,
                   snapMeta>>
    /\ Callbacks

\* lines 252, 256-259: readline() returns a line
ReadLine ==
    /\ pc = "read"
    /\ cursor < Len(file)
    /\ ProcessLine(FALSE, "tick")
    /\ UNCHANGED <<file, preLen, handle, from_start, window_minutes,
                   refresh_secs, stop_event, now, last_print, notifications,
                   snapMeta>>
    /\ Callbacks

ReadEmpty_NoSleep ==
    /\ pc = "read"
    /\ cursor = Len(file)
    /\ now + SleepUnits <= MaxTime
    /\ pc' = "tick"
    /\ UNCHANGED <<file, preLen, handle, cursor, window, from_start,
                   window_minutes, refresh_secs, stop_event, last_print,
                   notifications, parsed, pushes, snapMeta, now>>
    /\ Callbacks

\* lines 252-255: readline() returns "" at end of file, time.sleep(0.2)
ReadEmpty ==
    /\ pc = "read"
    /\ cursor = Len(file)
    /\ now + SleepUnits <= MaxTime
    /\ now' = now + SleepUnits
    /\ pc' = "tick"
    /\ UNCHANGED <<file, preLen, handle, cursor, window, from_start,
                   window_minutes, refresh_secs, stop_event, last_print,
                   notifications, parsed, pushes, snapMeta>>
    /\ Callbacks

\* variant: strict comparison
CadenceDue_Strict(t, last, secs) == t - last > secs * UnitsPerSecond

\* line 262: now_ts - last_print >= self.refresh_secs
CadenceDue(t, last, secs) == t - last >= secs * UnitsPerSecond

\* variant: the cadence tick drops the oldest event (a window sliding with
\* the wall clock)
CadenceCheck_WallClock ==
    /\ pc = "tick"
    /\ IF CadenceDue(now, last_print, refresh_secs)
       THEN LET w == IF Len(window) > 1 THEN Tail(window) ELSE window
                st == compute_stats_from_window(w, price_db)
            IN /\ window' = w
               /\ last_print' = now
               /\ notifications' = EmitStats(notifications, st)
               /\ snapMeta' = IF st = NoStats THEN snapMeta
                              ELSE Append(snapMeta, [pushes |-> pushes,
                                                     cadence |-> TRUE,
                                                     at |-> now])
       ELSE UNCHANGED <<window, last_print, notifications, snapMeta>>
    /\ pc' = "loop"
    /\ UNCHANGED <<file, preLen, handle, cursor, from_start, window_minutes,
                   refresh_secs, stop_event, now, parsed, pushes>>
    /\ Callbacks

\* lines 261-266
CadenceCheck ==
    /\ pc = "tick"
    /\ IF CadenceDue(now, last_print, refresh_secs)
       THEN LET st == compute_stats_from_window(window, WorkerPriceDb(price_db))
            IN /\ last_print' = now
               /\ notifications' = EmitStats(notifications, st)
               /\ snapMeta' = IF st = NoStats THEN snapMeta
                              ELSE Append(snapMeta, [pushes |-> pushes,
                                                     cadence |-> TRUE,
                                                     at |-> now])
       ELSE UNCHANGED <<last_print, notifications, snapMeta>>
    /\ pc' = "loop"
    /\ UNCHANGED <<file, preLen, handle, cursor, window, from_start,
                   window_minutes, refresh_secs, stop_event, now, parsed,
                   pushes>>
    /\ Callbacks

\* line 268: f.close()
CloseFile ==
    /\ pc = "close"
    /\ handle' = "closed"
    /\ pc' = "final"
    /\ UNCHANGED <<file, preLen, cursor, window, from_start, window_minutes,
                   refresh_secs, stop_event, now, last_print, notifications,
                   parsed, pushes, snapMeta>>
    /\ Callbacks

\* line 269
FinalStatus_Silent ==
    /\ pc = "final"
    /\ pc' = "done"
    /\ UNCHANGED <<file, preLen, handle, cursor, window, from_start,
                   window_minutes, refresh_secs, stop_event, now, last_print,
                   parsed, pushes, snapMeta, notifications>>
    /\ Callbacks

FinalStatus ==
    /\ pc = "final"
    /\ notifications' = Append(notifications, Status(MsgStopped))
    /\ pc' = "done"
    /\ UNCHANGED <<file, preLen, handle, cursor, window, from_start,
                   window_minutes, refresh_secs, stop_event, now, last_print,
                   parsed, pushes, snapMeta>>
    /\ Callbacks

Next ==
    \/ AppendLine
    \/ Tick
    \/ SetStop
    \/ OpenOk
    \/ OpenFail
    \/ BeginHistorical
    \/ HistRead
    \/ HistEnd
    \/ SkipHistory
    \/ LoopCheck
    \/ ReadEmpty
    \/ ReadLine
    \/ CadenceCheck
    \/ CloseFile
    \/ FinalStatus

Spec == Init /\ [][Next]_vars

\* ------------------------------------------------------------------------
\* The historical load of a run started with "from start": run() reads the
\* whole file into the window and aggregates it once (lines 229-243).
\* ------------------------------------------------------------------------
LoadWindowMinutes == {120}

LoadFiles == UNION {[1..n -> LoadLines] : n \in 0..MaxLoad}

InitLoad ==
    /\ file \in LoadFiles
    /\ preLen = Len(file)
    /\ handle = "none"
    /\ cursor = 0
    /\ window = <<>>
    /\ from_start = TRUE
    /\ window_minutes \in LoadWindowMinutes
    /\ refresh_secs \in RefreshSecsChoices
    /\ stop_event = FALSE
    /\ now = 0
    /\ last_print = 0
    /\ pc = "start"
    /\ notifications = <<>>
    /\ parsed = {}
    /\ pushes = 0
    /\ snapMeta = <<>>
    /\ price_db \in PriceTables
    /\ uiQueue = <<>>
    /\ last_received_stats = <<>>
    /\ handled = <<>>
    /\ worker = 1
    /\ joinAt = -1

NextLoad ==
    \/ OpenOk
    \/ BeginHistorical
    \/ HistRead
    \/ HistEnd

SpecLoad == InitLoad /\ [][NextLoad]_vars

\* ------------------------------------------------------------------------
\* The worker together with the UI thread: update_stats runs the scheduled
\* callbacks one at a time, the user edits prices and stops the monitor.
\* ------------------------------------------------------------------------
MaxUIFile == 2

UILines == {LineShard, LineSoulStone}

\* values typed into a price entry
PriceInputs == {2000}

AppendLoot ==
    /\ pc = "read"
    /\ Len(file) < MaxUIFile
    /\ \E l \in UILines : file' = Append(file, l)
    /\ UNCHANGED <<preLen, handle, cursor, window, from_start, window_minutes,
                   refresh_secs, stop_event, now, last_print, pc,
                   notifications, parsed, pushes, snapMeta>>
    /\ UNCHANGED <<price_db, uiQueue, last_received_stats, handled, worker,
                   joinAt>>

\* the for loop of lines 996-1000: items of the snapshot the price table
\* does not hold are added with price 0
WithNewItems(db, items) ==
    LET new == {items[j][1] : j \in 1..Len(items)} \ DOMAIN db
    IN [n \in DOMAIN db \cup new |-> IF n \in DOMAIN db THEN db[n] ELSE 0]

\* self.last_received_stats.get("items", []): the items of a snapshot, none
\* for a status or error dict
ItemsOf(stats) == IF IsStatsNote(stats) THEN stats.stats[1].items ELSE <<>>

\* The rows of the loot tree.  update_stats stores every dict it is called
\* with in last_received_stats and calls refresh_treeview_filtered, which
\* empties the tree and fills it with the items of last_received_stats
\* (empty search query, no bookmarks); before the first dict the tree is as
\* reset_stats_ui left it, empty.
TreeRows ==
    IF last_received_stats = <<>> THEN <<>>
    ELSE ItemsOf(last_received_stats[1])

\* LootMonitorApp.update_stats, run by the Tk main loop for the oldest
\* scheduled callback
UpdateStats ==
    /\ uiQueue # <<>>
    /\ LET stats == Head(uiQueue)
       IN /\ last_received_stats' = <<stats>>
          /\ handled' = Append(handled, stats)
          /\ uiQueue' = Tail(uiQueue)
          /\ stop_event' = IF IsErrorNote(stats) THEN TRUE ELSE stop_event
          /\ price_db' = IF IsStatsNote(stats)
                         THEN WithNewItems(price_db, stats.stats[1].items)
                         ELSE price_db
          /\ worker' = IF IsErrorNote(stats) THEN 0 ELSE worker
    /\ UNCHANGED joinAt
    /\ UNCHANGED <<file, preLen, handle, cursor, window, from_start,
                   window_minutes, refresh_secs, now, last_print, pc,
                   notifications, parsed, pushes, snapMeta>>

\* LootMonitorApp.on_price_change with a numeric entry (a non-numeric one
\* raises ValueError inside the try and changes nothing)
OnPriceChange ==
    /\ \E name \in DOMAIN price_db, new_val \in PriceInputs :
          price_db' = [price_db EXCEPT ![name] = new_val]
    /\ UNCHANGED <<file, preLen, handle, cursor, window, from_start,
                   window_minutes, refresh_secs, stop_event, now, last_print,
                   pc, notifications, parsed, pushes, snapMeta, uiQueue,
                   last_received_stats, handled, worker, joinAt>>

UIFiles == UNION {[1..n -> UILines] : n \in 0..1}

InitUI ==
    /\ file \in UIFiles
    /\ preLen = Len(file)
    /\ handle = "none"
    /\ cursor = 0
    /\ window = <<>>
    /\ from_start \in BOOLEAN
    /\ window_minutes \in WindowMinutesChoices
    /\ refresh_secs \in RefreshSecsChoices
    /\ stop_event = FALSE
    /\ now = 0
    /\ last_print = 0
    /\ pc = "start"
    /\ notifications = <<>>
    /\ parsed = {}
    /\ pushes = 0
    /\ snapMeta = <<>>
    /\ price_db = DefaultPrices
    /\ uiQueue = <<>>
    /\ last_received_stats = <<>>
    /\ handled = <<>>
    /\ worker = 1
    /\ joinAt = -1

NextUI ==
    \/ AppendLoot
    \/ Tick
    \/ SetStop
    \/ OpenOk
    \/ OpenFail
    \/ BeginHistorical
    \/ HistRead
    \/ HistEnd
    \/ SkipHistory
    \/ LoopCheck
    \/ ReadEmpty
    \/ ReadLine
    \/ CadenceCheck
    \/ CloseFile
    \/ FinalStatus
    \/ UpdateStats
    \/ OnPriceChange

SpecUI == InitUI /\ [][NextUI]_vars

\* ------------------------------------------------------------------------
\* Runs whose lines arrive before the worker reads them: the pushes of the
\* historical pass and of the live loop, one after the other.
\* ------------------------------------------------------------------------
AppendPush ==
    /\ pc = "read"
    /\ Len(file) < MaxPush
    /\ \E l \in PushLines : file' = Append(file, l)
    /\ UNCHANGED <<preLen, handle, cursor, window, from_start, window_minutes,
                   refresh_secs, stop_event, now, last_print, pc,
                   notifications, parsed, pushes, snapMeta>>
    /\ UNCHANGED <<price_db, uiQueue, last_received_stats, handled, worker,
                   joinAt>>

PushFiles == UNION {[1..n -> PushLines] : n \in 0..MaxPush}

InitPush ==
    /\ file \in PushFiles
    /\ preLen = Len(file)
    /\ handle = "none"
    /\ cursor = 0
    /\ window = <<>>
    /\ from_start \in BOOLEAN
    /\ window_minutes \in WindowMinutesChoices
    /\ refresh_secs \in RefreshSecsChoices
    /\ stop_event = FALSE
    /\ now = 0
    /\ last_print = 0
    /\ pc = "start"
    /\ notifications = <<>>
    /\ parsed = {}
    /\ pushes = 0
    /\ snapMeta = <<>>
    /\ price_db = DefaultPrices
    /\ uiQueue = <<>>
    /\ last_received_stats = <<>>
    /\ handled = <<>>
    /\ worker = 1
    /\ joinAt = -1

NextPush ==
    \/ AppendPush
    \/ OpenOk
    \/ BeginHistorical
    \/ HistRead
    \/ HistEnd
    \/ SkipHistory
    \/ LoopCheck
    \/ ReadLine
    \/ ReadEmpty
    \/ CadenceCheck

SpecPush == InitPush /\ [][NextPush]_vars

\* ------------------------------------------------------------------------
\* The parser on the characters of a line: a one-line history is read by the
\* historical pass (lines 232-236).
\* ------------------------------------------------------------------------
InitParse ==
    /\ file \in {<<l>> : l \in TextLines}
    /\ preLen = Len(file)
    /\ handle = "none"
    /\ cursor = 0
    /\ window = <<>>
    /\ from_start = TRUE
    /\ window_minutes \in WindowMinutesChoices
    /\ refresh_secs \in RefreshSecsChoices
    /\ stop_event = FALSE
    /\ now = 0
    /\ last_print = 0
    /\ pc = "start"
    /\ notifications = <<>>
    /\ parsed = {}
    /\ pushes = 0
    /\ snapMeta = <<>>
    /\ price_db = DefaultPrices
    /\ uiQueue = <<>>
    /\ last_received_stats = <<>>
    /\ handled = <<>>
    /\ worker = 1
    /\ joinAt = -1

NextParse ==
    \/ OpenOk
    \/ BeginHistorical
    \/ HistRead

SpecParse == InitParse /\ [][NextParse]_vars

\* ------------------------------------------------------------------------
\* Stopping a run and starting the next one (stop_monitor, start_monitor).
\* The run the variables follow is the first worker's; of a second worker
\* only the reference the application holds is kept.
\* ------------------------------------------------------------------------
JoinTimeout == UnitsPerSecond   \* worker.join(timeout=1.0)

\* the thread of the first worker has not returned from run()
WorkerAlive == pc \notin {"done", "failed", "crashed"}

\* lines 883-886: the event is set and the UI thread enters worker.join
StopMonitor ==
    /\ worker = 1
    /\ joinAt = -1
    /\ stop_event' = TRUE
    /\ joinAt' = now
    /\ UNCHANGED <<file, preLen, handle, cursor, window, from_start,
                   window_minutes, refresh_secs, now, last_print, pc,
                   notifications, parsed, pushes, snapMeta, price_db, uiQueue,
                   last_received_stats, handled, worker>>

\* lines 886-887: join returns once the thread has ended or after 1 s,
\* whichever comes first, and the reference is cleared
JoinReturn ==
    /\ joinAt # -1
    /\ ~WorkerAlive \/ now >= joinAt + JoinTimeout
    /\ worker' = 0
    /\ joinAt' = -1
    /\ UNCHANGED <<file, preLen, handle, cursor, window, from_start,
                   window_minutes, refresh_secs, stop_event, now, last_print,
                   pc, notifications, parsed, pushes, snapMeta, price_db,
                   uiQueue, last_received_stats, handled>>

\* lines 850-877: start_monitor creates a new event and a new worker; the
\* first worker keeps the event it was built with
StartMonitor ==
    /\ worker = 0
    /\ joinAt = -1
    /\ worker' = 2
    /\ UNCHANGED <<file, preLen, handle, cursor, window, from_start,
                   window_minutes, refresh_secs, stop_event, now, last_print,
                   pc, notifications, parsed, pushes, snapMeta, price_db,
                   uiQueue, last_received_stats, handled, joinAt>>

\* time passes while the worker is inside "for line in f" with lines left to
\* read (lines 232-236); the loop does not look at the stop event
LoadTick ==
    /\ pc = "hist"
    /\ cursor < Len(file)
    /\ now < MaxTime
    /\ now' = now + 1
    /\ UNCHANGED <<file, preLen, handle, cursor, window, from_start,
                   window_minutes, refresh_secs, stop_event, last_print, pc,
                   notifications, parsed, pushes, snapMeta, price_db, uiQueue,
                   last_received_stats, handled, worker, joinAt>>

InitRestart ==
    /\ file \in Files
    /\ preLen = Len(file)
    /\ handle = "none"
    /\ cursor = 0
    /\ window = <<>>
    /\ from_start = TRUE
    /\ window_minutes \in WindowMinutesChoices
    /\ refresh_secs \in RefreshSecsChoices
    /\ stop_event = FALSE
    /\ now = 0
    /\ last_print = 0
    /\ pc = "start"
    /\ notifications = <<>>
    /\ parsed = {}
    /\ pushes = 0
    /\ snapMeta = <<>>
    /\ price_db = DefaultPrices
    /\ uiQueue = <<>>
    /\ last_received_stats = <<>>
    /\ handled = <<>>
    /\ worker = 1
    /\ joinAt = -1

NextRestart ==
    \/ StopMonitor
    \/ JoinReturn
    \/ StartMonitor
    \/ LoadTick
    \/ OpenOk
    \/ BeginHistorical
    \/ HistRead
    \/ HistEnd
    \/ LoopCheck
    \/ ReadEmpty
    \/ CadenceCheck
    \/ CloseFile
    \/ FinalStatus

SpecRestart == InitRestart /\ [][NextRestart]_vars

\* ------------------------------------------------------------------------
\* The worker under fair scheduling: the thread, once started, keeps being
\* scheduled until run() returns or raises.  The clock stays at MaxTime once
\* it got there, so that the loop of lines 251-266 can go on for ever.
\* ------------------------------------------------------------------------
\* lines 252-255: readline() returns "" at end of file, time.sleep(0.2)
ReadEmptyCapped ==
    /\ pc = "read"
    /\ cursor = Len(file)
    /\ now' = IF now + SleepUnits <= MaxTime THEN now + SleepUnits ELSE now
    /\ pc' = "tick"
    /\ UNCHANGED <<file, preLen, handle, cursor, window, from_start,
                   window_minutes, refresh_secs, stop_event, last_print,
                   notifications, parsed, pushes, snapMeta>>
    /\ Callbacks

\* one step of the worker thread
WorkerStep ==
    \/ OpenOk
    \/ OpenFail
    \/ BeginHistorical
    \/ HistRead
    \/ HistEnd
    \/ SkipHistory
    \/ LoopCheck
    \/ ReadLine
    \/ ReadEmptyCapped
    \/ CadenceCheck
    \/ CloseFile
    \/ FinalStatus

NextFair ==
    \/ AppendLine
    \/ SetStop
    \/ WorkerStep

SpecFair == Init /\ [][NextFair]_vars /\ WF_vars(WorkerStep)

\* ------------------------------------------------------------------------
\* Properties
\* ------------------------------------------------------------------------
Last(s) == s[Len(s)]

WindowSeconds == window_minutes * 60

LivePush == pc = "read" /\ pushes' = pushes + 1
HistPush == pc = "hist" /\ pushes' = pushes + 1

IsStats(n) == n.type = "stats"
IsStatus(n) == n.type = "status"
IsError(n) == n.type = "error"

\* the events of the matched lines among the first k lines of f, in order
RECURSIVE EventsOf(_, _)
EventsOf(f, k) ==
    IF k = 0 THEN <<>>
    ELSE LET r == parse_log_line(f[k])
         IN IF r.res = "event" THEN Append(EventsOf(f, k - 1), r.ev)
            ELSE EventsOf(f, k - 1)

\* C1 (as stated): after any push of an event into the window, the window
\* holds exactly one event or its newest (last) event is at most the window
\* duration younger than its oldest (first) event.
C1_AnyPushWithinWindow ==
    [][(pushes' = pushes + 1) =>
         (Len(window') = 1
          \/ Last(window').ts - Head(window').ts <= WindowSeconds)]_vars

\* C1 (amended): after any push made with eviction enabled (every push of the
\* live loop, ignore_cutoff false), the window holds exactly one event or
\* its last event is at most the window duration younger than its first.
C1_LivePushWithinWindow ==
    [][LivePush =>
         (Len(window') = 1
          \/ (Len(window') > 1
              /\ Last(window').ts - Head(window').ts <= WindowSeconds))]_vars

\* a live push has evicted the historical events and left one event
C1_Witness ==
    /\ from_start
    /\ pc = "tick"
    /\ pushes = 3
    /\ cursor > preLen
    /\ Len(window) = 1

\* C2: the parser never raises: a line of the grammar's shape with
\* unparseable date/time fields is discarded and the driver goes on.
C2_ParserNeverRaises == pc # "crashed"

\* C3: at most one Error notification per run; it is emitted only when the
\* open failed (the file was never opened), it is the last notification,
\* and the run has read nothing and emitted no snapshot.
C3_ErrorOnceAndFinal ==
    /\ Cardinality({i \in 1..Len(notifications) : IsError(notifications[i])}) <= 1
    /\ (\E i \in 1..Len(notifications) : IsError(notifications[i]))
         => /\ pc = "failed"
            /\ handle = "none"
            /\ IsError(Last(notifications))
            /\ cursor = 0
            /\ parsed = {}
            /\ \A i \in 1..Len(notifications) : ~IsStats(notifications[i])
    /\ pc = "failed" => IsError(Last(notifications))

C3_Witness ==
    /\ pc = "failed"
    /\ Len(file) > 0
    /\ stop_event
    /\ notifications = <<Status(MsgOpening), ErrorNote>>

\* C4: once the loop check sees the stop event, the driver reads no further
\* line, closes the file, then emits "Monitoring stopped." as the last
\* notification of the run.
C4_StopClosesThenFinalStatus ==
    [][/\ (pc = "loop" /\ stop_event /\ pc' # pc) => pc' = "close"
       /\ (pc = "close") =>
            /\ UNCHANGED <<cursor, parsed, window, notifications>>
            /\ (pc' # pc => (handle' = "closed" /\ pc' = "final"))
       /\ (pc = "final") =>
            /\ handle = "closed"
            /\ UNCHANGED <<cursor, parsed, window, handle>>
            /\ (pc' # pc =>
                  /\ pc' = "done"
                  /\ notifications' = Append(notifications, Status(MsgStopped)))
       /\ (pc = "done") =>
            /\ Last(notifications) = Status(MsgStopped)
            /\ UNCHANGED <<cursor, parsed, window, handle, notifications, pc>>
      ]_vars

\* the run has stopped with an unread line left in the file
C4_Witness ==
    /\ pc = "done"
    /\ handle = "closed"
    /\ cursor < Len(file)
    /\ Last(notifications) = Status(MsgStopped)

NonDecreasing(w) == \A i \in 1..Len(w) - 1 : w[i].ts <= w[i + 1].ts

\* C5 (as stated): the historical pass evicts nothing, and after a matched
\* live line is pushed no event older than that line's timestamp minus the
\* window duration is left in the window.
C5_AllOlderEvicted ==
    [][/\ HistPush => Len(window') = Len(window) + 1
       /\ LivePush =>
            \A i \in 1..Len(window') :
               window'[i].ts >= Last(window').ts - WindowSeconds]_vars

\* C5 (amended): the historical pass evicts nothing (at its end the window
\* holds the events of all matched lines of the file, in order); a live push
\* removes from the head exactly the leading run of events older than the
\* pushed line's timestamp minus the window duration, so the remaining head
\* is not older than that cutoff, and when the time stamps are in
\* non-decreasing order no event older than the cutoff remains.
C5_LoadKeepsAllLiveEvictsHead ==
    [][/\ HistPush =>
            window' = Append(window, parse_log_line(file[cursor + 1]).ev)
       /\ (pc = "hist" /\ pc' = "loop") =>
            /\ cursor = Len(file)
            /\ window = EventsOf(file, Len(file))
       /\ LivePush =>
            LET ev == parse_log_line(file[cursor + 1]).ev
                a == Append(window, ev)
                k == Len(a) - Len(window')
                cut == ev.ts - WindowSeconds
            IN /\ k >= 0
               /\ k < Len(a)
               /\ window' = SubSeq(a, k + 1, Len(a))
               /\ \A i \in 1..k : a[i].ts < cut
               /\ Head(window').ts >= cut
               /\ Last(window') = ev
               /\ NonDecreasing(a) =>
                    \A i \in 1..Len(window') : window'[i].ts >= cut]_vars

\* the load kept an event that the first live push then evicted
C5_Witness ==
    /\ from_start
    /\ pc = "tick"
    /\ preLen = 1
    /\ cursor = 2
    /\ pushes = 2
    /\ Len(window) = 1
    /\ window[1].item = "Shard"

\* C6 (as stated): in historical-load mode one status is emitted before the
\* pre-existing lines are read and one snapshot right after the load ends.
C6_SnapshotAfterLoad ==
    [][/\ (pc = "opened" /\ pc' = "hist") =>
            notifications' = Append(notifications, Status(MsgReading))
       /\ (pc = "hist" /\ pc' = "loop") => IsStats(Last(notifications'))]_vars

\* C6 (amended): in historical-load mode one status is emitted before the
\* pre-existing lines are read, none while they are read, and when the load
\* ends the "loaded" status is followed at once by one snapshot if the
\* window is non-empty and by nothing if it is empty; this happens before
\* any live read and whatever the clock says.
C6_StatusThenSnapshotIfAny ==
    [][/\ (pc = "opened" /\ pc' = "hist") =>
            /\ notifications' = Append(notifications, Status(MsgReading))
            /\ parsed = {}
            /\ UNCHANGED <<cursor, parsed>>
       /\ (pc = "hist" /\ pc' = "hist") => UNCHANGED notifications
       /\ (pc = "hist" /\ pc' = "loop") =>
            /\ notifications' =
                 IF window = <<>>
                 THEN Append(notifications, Status(MsgLoaded))
                 ELSE notifications \o
                        <<Status(MsgLoaded),
                          Snapshot(compute_stats_from_window(window,
                                                             price_db))>>
            /\ UNCHANGED <<cursor, parsed, window>>]_vars

\* the snapshot of a loaded history is out before the live loop has started
C6_Witness ==
    /\ from_start
    /\ pc = "loop"
    /\ now = 0
    /\ cursor = preLen
    /\ Len(window) = 2
    /\ Len(notifications) = 4
    /\ notifications[2] = Status(MsgReading)
    /\ notifications[3] = Status(MsgLoaded)
    /\ IsStats(notifications[4])

\* C7: with from_start false no line that was in the file when the run
\* started is ever parsed or pushed; the window holds events of lines
\* appended afterwards only.
C7_SkipHistoryNeverParsesOldLines ==
    ~from_start =>
       /\ parsed \cap (1..preLen) = {}
       /\ pc \in {"loop", "read", "tick", "close", "final", "done", "crashed"}
            => cursor >= preLen
       /\ \A i \in 1..Len(window) :
             \E k \in parsed :
                /\ k > preLen
                /\ parse_log_line(file[k]).res = "event"
                /\ parse_log_line(file[k]).ev = window[i]

\* an old loot line was skipped and an appended one entered the window
C7_Witness ==
    /\ ~from_start
    /\ preLen = 2
    /\ parse_log_line(file[1]).res = "event"
    /\ parse_log_line(file[2]).res = "raise"
    /\ Len(window) = 1
    /\ parsed = {3}

IsCadence(m) == m.cadence

\* C8: at the cadence check of every iteration of the live loop, whether the
\* iteration read a line or slept, the driver emits the aggregator's
\* snapshot (nothing for an empty window) and restarts the cadence exactly
\* when at least refresh_secs have passed since the last cadence tick;
\* consecutive cadence emissions are at least refresh_secs apart.
C8_CadenceEmission ==
    /\ [][(pc = "tick" /\ pc' = "loop") =>
            IF now - last_print >= refresh_secs * UnitsPerSecond
            THEN /\ last_print' = now
                 /\ notifications' =
                      IF window = <<>> THEN notifications
                      ELSE Append(notifications,
                                  Snapshot(compute_stats_from_window(
                                             window, price_db)))
            ELSE UNCHANGED <<last_print, notifications>>]_vars
    /\ [](LET c == SelectSeq(snapMeta, IsCadence)
          IN \A i \in 1..Len(c) - 1 :
                c[i + 1].at - c[i].at >= refresh_secs * UnitsPerSecond)

\* two cadence snapshots, the second in an iteration that read a line
C8_Witness ==
    LET c == SelectSeq(snapMeta, IsCadence)
    IN /\ Len(c) = 2
       /\ c[2].pushes > c[1].pushes
       /\ c[2].at - c[1].at = refresh_secs * UnitsPerSecond
       /\ pc = "loop"

NoLineMatched == \A i \in parsed : ~file[i].shape

\* C9 (as stated): the aggregator returns None for an empty window, and in
\* a run in which no line matches the grammar every notification is a
\* status notification.
C9_OnlyStatusWithoutMatch ==
    /\ compute_stats_from_window(<<>>, DefaultPrices) = NoStats
    /\ NoLineMatched =>
         \A k \in 1..Len(notifications) : IsStatus(notifications[k])

\* C9 (amended): the aggregator returns None for an empty window, and in a
\* run in which no line matches the grammar no snapshot is emitted: every
\* notification is a status, but for the one final Error of a failed open.
C9_NoSnapshotWithoutMatch ==
    /\ compute_stats_from_window(<<>>, DefaultPrices) = NoStats
    /\ NoLineMatched =>
         \A k \in 1..Len(notifications) :
            \/ IsStatus(notifications[k])
            \/ /\ IsError(notifications[k])
               /\ k = Len(notifications)
               /\ pc = "failed"

\* a run over noise only, stopped after cadence ticks that emitted nothing
C9_Witness ==
    /\ NoLineMatched
    /\ Cardinality(parsed) >= 2
    /\ last_print >= refresh_secs * UnitsPerSecond
    /\ pc = "done"

Snaps == SelectSeq(notifications, IsStats)

\* C10: the window changes only when a matched line is pushed: the clock and
\* the cadence ticks leave it alone, so the snapshots emitted between two
\* pushes are all equal.
C10_WindowStallsWithStream ==
    /\ [][window' # window =>
            /\ pushes' = pushes + 1
            /\ pc \in {"hist", "read"}
            /\ now' = now]_vars
    /\ [](/\ Len(Snaps) = Len(snapMeta)
          /\ \A i, j \in 1..Len(snapMeta) :
                snapMeta[i].pushes = snapMeta[j].pushes => Snaps[i] = Snaps[j])

\* two cadence snapshots of a two-event window, a cadence apart, no push
\* between them
C10_Witness ==
    /\ Len(snapMeta) >= 2
    /\ Len(window) = 2
    /\ LET a == snapMeta[Len(snapMeta) - 1]
           b == snapMeta[Len(snapMeta)]
       IN /\ a.cadence
          /\ b.cadence
          /\ a.pushes = b.pushes
          /\ b.at > a.at

\* ---------------------------------------------------------------------------
\* Status messages of a run

StatusNotes == SelectSeq(notifications, IsStatus)
StatusMsgs == [i \in 1..Len(StatusNotes) |-> StatusNotes[i].msg]

IsPrefix(s, t) == Len(s) <= Len(t) /\ \A i \in 1..Len(s) : s[i] = t[i]

\* the status messages of a complete run, by mode
ExpectedStatuses ==
    IF from_start THEN <<MsgOpening, MsgReading, MsgLoaded, MsgStopped>>
    ELSE <<MsgOpening, MsgLive, MsgStopped>>

\* lifecycle transitions taken so far: opening, historical load started,
\* historical load finished, live monitoring started, stopped
TransitionsTaken ==
    CASE pc = "start" -> 0
      [] pc \in {"opened", "failed"} -> 1
      [] pc = "hist" -> 2
      [] pc \in {"loop", "read", "tick", "close", "final"} ->
            IF from_start THEN 4 ELSE 2
      [] pc = "done" -> IF from_start THEN 5 ELSE 3
      [] OTHER -> 0

\* status messages emitted so far, by position in run()
StatusesDue ==
    CASE pc = "start" -> 0
      [] pc \in {"opened", "failed"} -> 1
      [] pc = "hist" -> 2
      [] pc \in {"loop", "read", "tick", "close", "final"} ->
            IF from_start THEN 3 ELSE 2
      [] pc = "done" -> IF from_start THEN 4 ELSE 3
      [] OTHER -> 2

\* C11 as stated: every lifecycle transition the run has taken has a status
\* message of its own, so there are as many status messages as transitions.
C11_OneStatusPerTransition ==
    pc # "crashed" => Len(StatusMsgs) = TransitionsTaken

\* C11: the status messages of a run are, in order, "Opening log file...",
\* then either "Reading historical data..." followed by the single message
\* "Historical data loaded. Starting live monitor." (which covers both the end
\* of the load and the start of live monitoring) or "Monitoring live logs...",
\* then "Monitoring stopped."; each is emitted once, at its position in run().
C11_StatusesFollowLifecycle ==
    /\ IsPrefix(StatusMsgs, ExpectedStatuses)
    /\ IF pc = "crashed" THEN Len(StatusMsgs) >= StatusesDue
       ELSE Len(StatusMsgs) = StatusesDue

\* a stopped run that loaded the history and emitted a snapshot
C11_Witness ==
    /\ pc = "done"
    /\ from_start
    /\ StatusMsgs = <<MsgOpening, MsgReading, MsgLoaded, MsgStopped>>
    /\ Len(Snaps) >= 1

\* ---------------------------------------------------------------------------
\* Snapshots of the historical load, against the window they were computed
\* from (the load leaves the window alone once the snapshot is out)

SnapStats == [i \in 1..Len(Snaps) |-> Snaps[i].stats[1]]

RECURSIVE SumQtyAt(_, _)
\* summed quantity of the window's events at the positions I
SumQtyAt(w, I) ==
    IF I = {} THEN 0
    ELSE LET i == CHOOSE i \in I : TRUE
         IN w[i].quantity + SumQtyAt(w, I \ {i})

PositionsOf(w, name) == {i \in 1..Len(w) : w[i].item = name}

\* r is an integer nearest to n / d
Nearest(r, n, d) == 2 * (r * d - n) <= d /\ 2 * (n - r * d) <= d

\* C14: in every snapshot the per-hour rate of the currency and of each item
\* is an integer nearest to total quantity / elapsed hours, and the currency's
\* per-minute rate one nearest to total / elapsed minutes; a window spanning
\* 2 hours with currency total 1000 has currency per hour 500.
C14_RatesAreNearest ==
    \A k \in 1..Len(SnapStats) :
       LET s == SnapStats[k]
       IN /\ s.dropped_yang = SumQtyAt(window, PositionsOf(window, "Yang"))
          /\ Nearest(s.yang_per_hour, s.dropped_yang * 3600, s.elapsed)
          /\ Nearest(s.yang_per_minute, s.dropped_yang * 60, s.elapsed)
          /\ \A j \in 1..Len(s.items) :
                /\ s.items[j][2] =
                      SumQtyAt(window, PositionsOf(window, s.items[j][1]))
                /\ Nearest(s.items[j][3], s.items[j][2] * 3600, s.elapsed)
          /\ (s.elapsed = 7200 /\ s.dropped_yang = 1000)
                => s.yang_per_hour = 500

\* the 2-hour window with currency total 1000, holding an item whose hourly
\* rate is a tie (5 in 2 hours)
C14_Witness ==
    /\ pc = "loop"
    /\ Len(SnapStats) = 1
    /\ LET s == SnapStats[1]
       IN /\ s.elapsed = 7200
          /\ s.dropped_yang = 1000
          /\ s.yang_per_hour = 500
          /\ \E j \in 1..Len(s.items) :
                2 * ((s.items[j][2] * 3600) % s.elapsed) = s.elapsed

\* C15: for every item of a snapshot the monetary value is the item's total
\* quantity in the window times its unit price in the price table, and 0 when
\* the table has no price for the item.
C15_ItemValueIsQtyTimesPrice ==
    \A k \in 1..Len(SnapStats) :
       LET s == SnapStats[k]
       IN \A j \in 1..Len(s.items) :
             LET name == s.items[j][1]
                 qty == SumQtyAt(window, PositionsOf(window, name))
             IN IF name \in DOMAIN price_db
                THEN s.items[j][4] = qty * price_db[name]
                ELSE s.items[j][4] = 0

\* a snapshot with a priced item and an item the price table does not hold
C15_Witness ==
    /\ pc = "loop"
    /\ Len(SnapStats) = 1
    /\ price_db = EditedPrices
    /\ LET s == SnapStats[1]
       IN /\ \E j \in 1..Len(s.items) :
                s.items[j][1] = "Soul Stone" /\ s.items[j][4] = 150
          /\ \E j \in 1..Len(s.items) :
                /\ s.items[j][1] \notin DOMAIN price_db
                /\ s.items[j][2] > 0
                /\ s.items[j][4] = 0

RECURSIVE SumCounts(_, _)
\* sum of the counts of the categories D of a snapshot
SumCounts(runs, D) ==
    IF D = {} THEN 0
    ELSE LET d == CHOOSE d \in D : TRUE
         IN runs[d] + SumCounts(runs, D \ {d})

\* a category without a count in dungeon_runs counts 0
CategoryCount(s, d) ==
    IF d \in DOMAIN s.dungeon_runs THEN s.dungeon_runs[d] ELSE 0

\* C16: in every snapshot each category's count is the sum of the received
\* quantities of the window's events whose item belongs to the category, the
\* currency belongs to no category, and the total equals the sum of the
\* category counts.
C16_CategoryCountsSumQuantities ==
    /\ \A d \in DungeonNames : "Yang" \notin DUNGEONS[d]
    /\ \A k \in 1..Len(SnapStats) :
          LET s == SnapStats[k]
          IN /\ DOMAIN s.dungeon_runs \subseteq DungeonNames
             /\ \A d \in DungeonNames :
                   CategoryCount(s, d) =
                      SumQtyAt(window, {i \in 1..Len(window) :
                                           window[i].item \in DUNGEONS[d]})
             /\ s.total_dungeon_runs =
                   SumCounts(s.dungeon_runs, DOMAIN s.dungeon_runs)

\* chest events of quantities 2 and 5 next to a currency event: Razador 7
C16_Witness ==
    /\ pc = "loop"
    /\ Len(SnapStats) = 1
    /\ Len(window) = 3
    /\ \E i \in 1..Len(window) : is_yang(window[i])
    /\ \E i, j \in 1..Len(window) :
          /\ window[i].item = "Truhe des Razador" /\ window[i].quantity = 2
          /\ window[j].item = "Truhe des Razador" /\ window[j].quantity = 5
    /\ CategoryCount(SnapStats[1], "Razador") = 7
    /\ SnapStats[1].total_dungeon_runs = 7

\* position of the first event of an item in the window
FirstSeen(w, name) ==
    CHOOSE i \in 1..Len(w) :
        /\ w[i].item = name
        /\ \A k \in 1..(i - 1) : w[k].item # name

\* C17: the items of every snapshot are in descending order of quantity, and
\* items of equal quantity in the order in which their names first occur in
\* the window.
C17_ItemsByQuantityThenFirstSeen ==
    \A k \in 1..Len(SnapStats) :
       LET rows == SnapStats[k].items
       IN \A i, j \in 1..Len(rows) :
             i < j =>
                /\ rows[i][2] >= rows[j][2]
                /\ rows[i][2] = rows[j][2] =>
                      FirstSeen(window, rows[i][1]) < FirstSeen(window, rows[j][1])

\* three items, the first seen with the smallest quantity, the other two tied
C17_Witness ==
    /\ pc = "loop"
    /\ Len(SnapStats) = 1
    /\ LET rows == SnapStats[1].items
       IN /\ Len(rows) = 3
          /\ rows[1][2] = rows[2][2]
          /\ rows[2][2] > rows[3][2]
          /\ FirstSeen(window, rows[3][1]) = 1

\* C19: the history "[01/01/25] [00:00:00]: You receive 100 Yang." then
\* "[01/01/25] [01:00:00]: You receive 50 Shard.", window duration 120
\* minutes, price table {Shard: 1000}: one snapshot, with currency total 100,
\* one elapsed hour, currency per hour 100 and items [(Shard, 50, 50, 50000)].
C19_EndToEndExample ==
    (/\ file = <<Loot(1, 1, 25, 0, 0, 0, 100, "Yang"),
                 Loot(1, 1, 25, 1, 0, 0, 50, "Shard")>>
     /\ window_minutes = 120
     /\ price_db = [n \in {"Shard"} |-> 1000]
     /\ pc = "loop")
    => /\ Len(SnapStats) = 1
       /\ IsStats(Last(notifications))
       /\ SnapStats[1].dropped_yang = 100
       /\ SnapStats[1].elapsed = 3600
       /\ SnapStats[1].yang_per_hour = 100
       /\ SnapStats[1].items = << <<"Shard", 50, 50, 50000>> >>

\* the two lines were loaded and aggregated
C19_Witness ==
    /\ file = <<LineYang, LineShardHour>>
    /\ window_minutes = 120
    /\ price_db = DefaultPrices
    /\ pc = "loop"
    /\ Len(window) = 2
    /\ Len(SnapStats) = 1

MinTs(w) == CHOOSE t \in {w[i].ts : i \in 1..Len(w)} : \A i \in 1..Len(w) : t <= w[i].ts
MaxTs(w) == CHOOSE t \in {w[i].ts : i \in 1..Len(w)} : \A i \in 1..Len(w) : t >= w[i].ts

\* C20 as stated: in every snapshot the interval start is the minimum and the
\* interval end the maximum timestamp of the window's events.
C20_StartEndAreMinMax ==
    \A k \in 1..Len(SnapStats) :
       /\ SnapStats[k].start = MinTs(window)
       /\ SnapStats[k].end = MaxTs(window)

\* C20: in every snapshot the interval start is the timestamp of the event at
\* the head of the window (the one read first) and the interval end that of
\* the event at its tail (the one read last); they are the minimum and the
\* maximum timestamp when the window's timestamps are non-decreasing.
C20_StartEndAreFirstLast ==
    \A k \in 1..Len(SnapStats) :
       /\ SnapStats[k].start = window[1].ts
       /\ SnapStats[k].end = window[Len(window)].ts
       /\ NonDecreasing(window) =>
             /\ SnapStats[k].start = MinTs(window)
             /\ SnapStats[k].end = MaxTs(window)

\* a snapshot of a window whose later line carries the earlier timestamp
C20_Witness ==
    /\ pc = "loop"
    /\ Len(SnapStats) = 1
    /\ Len(window) >= 2
    /\ ~NonDecreasing(window)
    /\ SnapStats[1].start > SnapStats[1].end
    /\ SnapStats[1].elapsed = FloorSeconds

\* ---------------------------------------------------------------------------
\* The worker and the UI thread

\* C12: update_stats handles the notifications of a run in the order the
\* worker emitted them: what it has handled so far, followed by what is still
\* scheduled, is what the worker has emitted, so of two snapshots the earlier
\* computed is handled first, and what is displayed is the notification
\* handled last, never an earlier one.
C12_HandledInEmissionOrder ==
    /\ handled \o uiQueue = notifications
    /\ last_received_stats =
          IF handled = <<>> THEN <<>> ELSE <<Last(handled)>>

\* two snapshots handled, the second one displayed, while later
\* notifications of the worker still wait to be handled
C12_Witness ==
    /\ Len(SelectSeq(handled, IsStats)) >= 2
    /\ IsStats(Last(handled))
    /\ Last(handled) # SelectSeq(handled, IsStats)[1]
    /\ Len(uiQueue) >= 2

\* unit price of an item in the table as it is now
PriceNow(name) == IF name \in DOMAIN price_db THEN price_db[name] ELSE 0

\* C13: every snapshot the worker emits values each item at its quantity
\* times the unit price the table holds at that aggregation, whatever it was
\* at earlier aggregations, and no edit of a price makes the worker fail.
C13_SnapshotUsesCurrentPrices ==
    /\ [][\A i \in 1..Len(NewNotes) :
            IsStats(NewNotes[i]) =>
               \A j \in 1..Len(NewNotes[i].stats[1].items) :
                  LET row == NewNotes[i].stats[1].items[j]
                  IN row[4] = row[2] * PriceNow(row[1])]_vars
    /\ [](pc # "crashed")

\* two cadence snapshots in a row of the same window, the price of Shard
\* edited from 1000 to 2000 between them, and the worker stopped normally
C13_Witness ==
    /\ pc = "done"
    /\ Len(snapMeta) >= 2
    /\ LET a == Len(snapMeta) - 1
           b == Len(snapMeta)
       IN /\ snapMeta[a].cadence
          /\ snapMeta[b].cadence
          /\ snapMeta[a].pushes = snapMeta[b].pushes
          /\ \E j \in 1..Len(SnapStats[a].items) :
                /\ SnapStats[a].items[j][1] = "Shard"
                /\ SnapStats[b].items[j][1] = "Shard"
                /\ SnapStats[a].items[j][4] = SnapStats[a].items[j][2] * 1000
                /\ SnapStats[b].items[j][4] = SnapStats[b].items[j][2] * 2000

\* ---------------------------------------------------------------------------
\* The parser on the characters of a line

\* the line has exactly the grammar's shape: nothing before the date, a
\* non-empty item text, and the period that ends the line
ExactShape(l) ==
    /\ l.lead = <<>>
    /\ Len(l.text) >= 2
    /\ l.text[Len(l.text)] = "."

\* C21: the item of a line of the grammar's shape is the whole text between
\* the quantity and the line's final period, inner periods included, and a
\* line that has not exactly that shape yields no event.
C21_ItemIsTextUpToFinalPeriod ==
    (pc = "hist" /\ cursor = 1) =>
       IF ExactShape(file[1])
       THEN /\ Len(window) = 1
            /\ window[1].item = SubSeq(file[1].text, 1, Len(file[1].text) - 1)
       ELSE window = <<>>

\* ---------------------------------------------------------------------------
\* Pushes and aggregations in any order of timestamps

\* the step reads a line that parses to an event
ReadsEvent ==
    /\ cursor' = cursor + 1
    /\ parsed' = parsed \cup {cursor + 1}
    /\ parsed' # parsed
    /\ file[cursor + 1].shape
    /\ DateTimeValid(file[cursor + 1])

DuplicateTs(w) == \E i, j \in 1..Len(w) : i # j /\ w[i].ts = w[j].ts

\* C22: whatever the order of the timestamps, duplicates and quantities 0
\* included, every push and every aggregation completes: the worker does not
\* fail, each parsed event is at the window's tail after its push with the
\* quantity it was read with, and each aggregation of a non-empty window
\* yields a snapshot whose rates were divided by at least 1 second.
C22_PushAndAggregateComplete ==
    /\ [][ReadsEvent =>
            /\ pc' # "crashed"
            /\ pushes' = pushes + 1
            /\ window' # <<>>
            /\ Last(window').quantity = file[cursor + 1].qty
            /\ Last(window').item = file[cursor + 1].item]_vars
    /\ [](/\ pc # "crashed"
          /\ (window # <<>> /\ pc \in {"hist", "tick"}) =>
                /\ compute_stats_from_window(window, price_db) # NoStats
                /\ Elapsed(window) >= 1
          /\ \A k \in 1..Len(SnapStats) : SnapStats[k].elapsed >= 1)

\* a cadence snapshot of a live window that holds an event of quantity 0,
\* two events of one timestamp and a last event older than the others
C22_Witness ==
    /\ ~from_start
    /\ pc = "loop"
    /\ Len(window) = 3
    /\ \E i \in 1..Len(window) : window[i].quantity = 0
    /\ DuplicateTs(window)
    /\ ~NonDecreasing(window)
    /\ Len(snapMeta) >= 1
    /\ Last(snapMeta).cadence
    /\ Last(snapMeta).pushes = 3

\* C23: in every snapshot the elapsed time is max(end - start, 1 second), at
\* least 1 second, also for a window of one event or of events that share
\* one timestamp.
C23_ElapsedFloor ==
    \A k \in 1..Len(SnapStats) :
       LET s == SnapStats[k]
       IN /\ s.elapsed >= 1
          /\ s.elapsed = IF s.end - s.start >= 1 THEN s.end - s.start ELSE 1

\* snapshots of a one-event window and then of a window of two events that
\* share their timestamp
C23_Witness ==
    /\ Len(SnapStats) >= 2
    /\ SnapStats[1].elapsed = 1
    /\ Last(SnapStats).elapsed = 1
    /\ Len(window) = 2
    /\ window[1].ts = window[2].ts
    /\ Last(snapMeta).pushes = 2
    /\ snapMeta[1].pushes = 1

\* ---------------------------------------------------------------------------
\* Cancellation in the live loop

\* in a run that loaded the history and got no line since, every read of the
\* live loop is an empty read: at "tick" the driver has just woken from the
\* backoff
WokeFromBackoff == pc = "tick" /\ from_start /\ Len(file) = preLen

\* with the stop signal set, the rest of the iteration the driver is in: at
\* most one read, then the time check, then the loop test that ends the loop
StopEndsIteration ==
    stop_event =>
       /\ (pc = "loop" /\ pc' # pc) =>
             /\ pc' = "close"
             /\ UNCHANGED <<cursor, window, notifications>>
       /\ (pc = "read" /\ (pc' # pc \/ cursor' # cursor)) =>
             /\ pc' \in {"tick", "crashed"}
             /\ cursor' <= cursor + 1
             /\ UNCHANGED notifications
       /\ (pc = "tick" /\ pc' # pc) =>
             /\ pc' = "loop"
             /\ UNCHANGED <<cursor, window>>

\* C24 as stated: once the stop signal is set in Live the driver processes at
\* most one more line, and after waking from a backoff with the signal set it
\* aggregates and emits nothing more.
C24_NoEmissionAfterWakeWithStop ==
    [][/\ StopEndsIteration
       /\ (WokeFromBackoff /\ stop_event) =>
             UNCHANGED <<notifications, last_print>>]_vars

\* C24: the stop signal is tested once per iteration of the live loop, at its
\* top: once it is set in Live the driver finishes the iteration it is in, which
\* is at most one more line or one backoff and then the time check with at
\* most one more snapshot, also after a backoff, and the next loop test ends
\* the loop without a further read.
C24_StopEndsWithinOneIteration ==
    [][/\ StopEndsIteration
       /\ (pc = "tick" /\ stop_event) =>
             /\ Len(notifications') <= Len(notifications) + 1
             /\ (notifications' # notifications =>
                   /\ CadenceDue(now, last_print, refresh_secs)
                   /\ notifications' =
                         Append(notifications,
                                Snapshot(compute_stats_from_window(window,
                                                                   price_db))))
      ]_vars

\* the driver has woken from a backoff with the stop signal set, and a
\* snapshot of its window is due
C24_Witness ==
    /\ WokeFromBackoff
    /\ stop_event
    /\ window # <<>>
    /\ CadenceDue(now, last_print, refresh_secs)

\* ---------------------------------------------------------------------------
\* The eviction boundary

\* position of the first event of a that is not older than the cutoff
FirstKept(a, cut) ==
    CHOOSE k \in 1..Len(a) :
        /\ a[k].ts >= cut
        /\ \A i \in 1..(k - 1) : a[i].ts < cut

\* C25: a live push removes events from the head only while the head's
\* timestamp is strictly less than the cutoff (the pushed event's timestamp
\* minus the window duration): the window afterwards starts at the first
\* event not older than the cutoff, an event exactly at the cutoff stays, and
\* so does every event behind it, older than the cutoff or not.
C25_EvictsStrictlyOlderHeads ==
    [][(LivePush /\ ReadsEvent) =>
          LET ev == parse_log_line(file[cursor + 1]).ev
              a == Append(window, ev)
              cut == ev.ts - window_minutes * 60
          IN window' = SubSeq(a, FirstKept(a, cut), Len(a))]_vars

\* after a live push the head is exactly at the cutoff and the event behind
\* it is older than the cutoff
C25_Witness ==
    /\ ~from_start
    /\ pc = "tick"
    /\ pushes = 3
    /\ Len(window) = 3
    /\ window[1].ts = window[3].ts - window_minutes * 60
    /\ window[2].ts < window[3].ts - window_minutes * 60

\* ---------------------------------------------------------------------------
\* The window against the reference set

IsEventRes(r) == r.res = "event"

\* the events of the lines the run has parsed up to line k, in arrival order
RunEvents(k) ==
    LET lo == IF from_start THEN 1 ELSE preLen + 1
        res == SelectSeq([i \in 1..(k - lo + 1) |->
                            parse_log_line(file[lo + i - 1])], IsEventRes)
    IN [i \in 1..Len(res) |-> res[i].ev]

\* C26: when the events of the run are in chronological order, the window
\* after a live push is exactly the events matched so far, historical and
\* live, that are at most the window duration older than the pushed event, in
\* arrival order.
C26_WindowIsReferenceSet ==
    [][(LivePush /\ ReadsEvent /\ NonDecreasing(RunEvents(cursor + 1))) =>
          LET all == RunEvents(cursor + 1)
              cut == Last(all).ts - window_minutes * 60
              Within(e) == e.ts >= cut
          IN window' = SelectSeq(all, Within)]_vars

\* a chronological run: of two historical events the first live push has
\* evicted the older and kept the one exactly a window duration old
C26_Witness ==
    /\ from_start
    /\ pc = "tick"
    /\ preLen = 2
    /\ cursor = 3
    /\ NonDecreasing(RunEvents(3))
    /\ Len(window) = 2
    /\ window[2].ts - window[1].ts = window_minutes * 60

\* ---------------------------------------------------------------------------
\* Empty reads

\* the driver leaves the read without having consumed a line
EmptyReadStep == pc = "read" /\ pc' # pc /\ cursor' = cursor

\* C27: in the live loop a read that finds no new data is followed by the
\* backoff delay of 200 ms before the driver does anything else, and emits no
\* notification itself.
C27_EmptyReadBacksOff ==
    [][EmptyReadStep =>
          /\ cursor = Len(file)
          /\ now' = now + SleepUnits
          /\ pc' = "tick"
          /\ UNCHANGED <<notifications, uiQueue, window>>]_vars

\* a live run that found no data at two reads in a row and has emitted its
\* two status messages only
C27_Witness ==
    /\ ~from_start
    /\ pc = "read"
    /\ parsed = {}
    /\ now = 2 * SleepUnits
    /\ notifications = <<Status(MsgOpening), Status(MsgLive)>>

\* ---------------------------------------------------------------------------
\* The item list after a stop

HandledSnaps == SelectSeq(handled, IsStats)

\* C28: after stop_monitor, once update_stats has handled every notification
\* of the stopped run, last_received_stats is the last snapshot received and
\* the loot tree holds its items.
C28_StopKeepsItemList ==
    (stop_event /\ pc = "done" /\ uiQueue = <<>> /\ HandledSnaps # <<>>) =>
       /\ last_received_stats = <<Last(HandledSnaps)>>
       /\ TreeRows = Last(HandledSnaps).stats[1].items


\* C29: at most one worker executes run() at any time: once stop_monitor has
\* returned and a new run was started, the first worker has ended and sends
\* the consumer no further notification.
C29_AtMostOneWorker ==
    /\ [](worker = 2 => ~WorkerAlive)
    /\ [][worker = 2 => notifications' = notifications]_vars


\* the step is a time check that is due (lines 261-262)
CadenceTick ==
    /\ pc = "tick"
    /\ pc' = "loop"
    /\ CadenceDue(now, last_print, refresh_secs)

\* C30: after any push, with or without eviction, the window is not empty and
\* its last element is the event just pushed; a window that is not empty
\* never becomes empty again, and every due time check after that emits a
\* snapshot.
C30_WindowStaysNonEmpty ==
    [][/\ pushes' # pushes =>
             /\ window' # <<>>
             /\ Last(window') = parse_log_line(file[cursor + 1]).ev
       /\ window # <<>> => window' # <<>>
       /\ (window # <<>> /\ CadenceTick) =>
             /\ Len(notifications') = Len(notifications) + 1
             /\ IsStats(Last(notifications'))
             /\ Last(notifications').stats[1].end = Last(window).ts]_vars

\* a due time check has emitted the snapshot of a window in which the last
\* push evicted every earlier event
C30_Witness ==
    /\ pc = "loop"
    /\ pushes >= 2
    /\ Len(window) = 1
    /\ snapMeta # <<>>
    /\ Last(snapMeta).cadence
    /\ Last(snapMeta).pushes = pushes
    /\ notifications # <<>>
    /\ IsStats(Last(notifications))


\* summed quantity of the entries of a snapshot's items list
ItemsTotal(items) == SumSeq([i \in 1..Len(items) |-> items[i][2]])

\* C31: in every snapshot the Yang total plus the quantities of all entries
\* of items is the summed quantity of all events of the window; "Yang" is no
\* entry of items, and no item name has two entries.
C31_SnapshotConservesQuantities ==
    \A k \in 1..Len(SnapStats) :
       LET s == SnapStats[k]
       IN /\ s.dropped_yang + ItemsTotal(s.items) =
                SumQtyAt(window, 1..Len(window))
          /\ \A i \in 1..Len(s.items) : s.items[i][1] # "Yang"
          /\ \A i, j \in 1..Len(s.items) :
                s.items[i][1] = s.items[j][1] => i = j
          /\ \A i \in 1..Len(window) :
                window[i].item # "Yang" =>
                   \E j \in 1..Len(s.items) : s.items[j][1] = window[i].item

\* the snapshot of a history with a Yang event and two events of one item:
\* one entry of items holds both quantities
C31_Witness ==
    /\ pc = "loop"
    /\ Len(SnapStats) = 1
    /\ Len(window) = 3
    /\ \E i \in 1..Len(window) : is_yang(window[i])
    /\ \E i, j \in 1..Len(window) :
          i # j /\ window[i].item = "Shard" /\ window[j].item = "Shard"
    /\ Len(SnapStats[1].items) = 1
    /\ SnapStats[1].items[1][2] = 100
    /\ SnapStats[1].dropped_yang > 0


\* C32: in a run whose open succeeded, once the stop event is set the worker,
\* scheduled fairly, eventually closes the file and emits the final status
\* "Monitoring stopped.".
C32_StopLeadsToFinalStatus ==
    (stop_event /\ handle = "open") ~>
        (/\ handle = "closed"
         /\ pc = "done"
         /\ Last(notifications) = Status(MsgStopped))

====
